---- MODULE Spec2Model ----
(***************************************************************************)
(* Model of the result consolidation engine of lumina                      *)
(* (workflows/enhanced_consolidation.py, EnhancedResultConsolidator) and   *)
(* of the orchestrator that feeds it (workflows/langgraph_workflow.py,     *)
(* ResearchWorkflow).                                                      *)
(*                                                                         *)
(* Python str values are TLA+ strings; a character is a string of length   *)
(* one.  Python dicts are TLA+ records whose domain holds the keys that    *)
(* are present.  Floats that the code only adds and compares are kept as   *)
(* exact integers in a fixed unit (the confidence score in tenths).        *)
(***************************************************************************)
EXTENDS Integers, Sequences, FiniteSets, TLC

VARIABLES
    text,            \* the str handed to _clean_text
    cleaned,         \* _clean_text(text), once computed
    recleaned,       \* _clean_text(cleaned), once computed
    in_query,         \* the arguments of consolidate_results
    in_domain,
    in_results,
    hashsalt,        \* the salt of str hashing in the running process
    clock,           \* the number of calls made so far (the time read by now())
    consolidated,    \* what the last call of consolidate_results returned
    previous,        \* what the call before it returned
    process,         \* the number of times the program was started again
    agents,          \* ResearchWorkflow.agents
    _agents_initialized,
    selected_agents, \* the argument of the running execute
    tasks,           \* the agent tasks of the running execute
    pc               \* position of the caller

textVars == <<text, cleaned, recleaned>>
callVars == <<in_query, in_domain, in_results, hashsalt, clock, consolidated,
              previous, process>>
workflowVars == <<agents, _agents_initialized, selected_agents, tasks>>
vars == <<text, cleaned, recleaned, in_query, in_domain, in_results, hashsalt,
          clock, consolidated, previous, process, agents, _agents_initialized,
          selected_agents, tasks, pc>>

None == "<None>"     \* Python's None / "not computed yet"

(***************************************************************************)
(* Characters                                                              *)
(***************************************************************************)
Char(s, i) == SubSeq(s, i, i)

\* A TLA+ string literal cannot hold the grave accent: the model writes it "~".
Backtick == "~"
Whitespace == {" ", "\t", "\n"}
Digits == {"0", "1", "2", "3", "4", "5", "6", "7", "8", "9"}
UpperLetters == "ABCDEFGHIJKLMNOPQRSTUVWXYZ"
LowerLetters == "abcdefghijklmnopqrstuvwxyz"
UpperSet == {Char(UpperLetters, i) : i \in 1..26}
LowerSet == {Char(LowerLetters, i) : i \in 1..26}
\* \w of Python's re for the characters the model uses
WordChars == UpperSet \cup LowerSet \cup Digits \cup {"_"}

\* least index k >= i with s[k] in set, or 0
MinOr(K, none) == IF K = {} THEN none ELSE CHOOSE k \in K : \A m \in K : k <= m
FirstIn(s, set, i) == MinOr({k \in i..Len(s) : Char(s, k) \in set}, 0)

\* least index k >= i with s[k] not in set, or Len(s) + 1
FirstNotIn(s, set, i) ==
    MinOr({k \in i..Len(s) : Char(s, k) \notin set}, Len(s) + 1)

(***************************************************************************)
(* re.sub for the patterns of _clean_text and _normalize_text.  re.sub     *)
(* replaces the leftmost non-overlapping matches, scanning left to right,  *)
(* and copies the text between them.  XEnd(s, k) is the index just after   *)
(* the match of pattern X that starts at k, or 0 when none starts there;   *)
(* the patterns are greedy and a shorter repetition never lets the rest    *)
(* match.                                                                  *)
(***************************************************************************)
Min(S) == CHOOSE k \in S : \A m \in S : k <= m
Max(S) == CHOOSE k \in S : \A m \in S : m <= k

\* r'<[^>]+>'
TagEnd(s, k) ==
    IF Char(s, k) # "<" THEN 0
    ELSE LET j == FirstIn(s, {">"}, k + 1) IN IF j > k + 1 THEN j + 1 ELSE 0

\* r'\*\*([^*]+)\*\*'
BoldEnd(s, k) ==
    IF ~(Char(s, k) = "*" /\ k + 1 <= Len(s) /\ Char(s, k + 1) = "*") THEN 0
    ELSE LET j == FirstIn(s, {"*"}, k + 2)
         IN IF j > k + 2 /\ j + 1 <= Len(s) /\ Char(s, j + 1) = "*"
            THEN j + 2 ELSE 0

\* r'\*([^*]+)\*' with m = "*", r'`([^`]+)`' with m = Backtick
PairEnd(s, m, k) ==
    IF Char(s, k) # m THEN 0
    ELSE LET j == FirstIn(s, {m}, k + 1) IN IF j > k + 1 THEN j + 1 ELSE 0

\* r'#{1,6}\s+'
HeadingEnd(s, k) ==
    IF Char(s, k) # "#" THEN 0
    ELSE LET run == FirstNotIn(s, {"#"}, k) - k       \* '#' characters from k on
             n == IF run > 6 THEN 6 ELSE run          \* greedy #{1,6}
             e == FirstNotIn(s, Whitespace, k + n)    \* end of \s+
         IN IF e > k + n THEN e ELSE 0

\* r'\[\d+\]'
CitationEnd(s, k) ==
    IF Char(s, k) # "[" THEN 0
    ELSE LET e == FirstNotIn(s, Digits, k + 1)
         IN IF e > k + 1 /\ e <= Len(s) /\ Char(s, e) = "]" THEN e + 1 ELSE 0

\* r'\s+'
SpacesEnd(s, k) ==
    IF Char(s, k) \notin Whitespace THEN 0 ELSE FirstNotIn(s, Whitespace, k)

\* r'[^\w\s]'
NonWordEnd(s, k) ==
    IF Char(s, k) \in WordChars \cup Whitespace THEN 0 ELSE k + 1

\* the index just after the match of pattern p that starts at k, or 0
MatchEnd(p, s, k) ==
    CASE p = "tag" -> TagEnd(s, k)
      [] p = "bold" -> BoldEnd(s, k)
      [] p = "italic" -> PairEnd(s, "*", k)
      [] p = "heading" -> HeadingEnd(s, k)
      [] p = "code" -> PairEnd(s, Backtick, k)
      [] p = "citation" -> CitationEnd(s, k)
      [] p = "spaces" -> SpacesEnd(s, k)
      [] p = "nonword" -> NonWordEnd(s, k)

\* what re.sub puts in place of the match s[k..e-1] of pattern p: r'\1' for
\* bold, italic and code, ' ' for spaces, '' for the others
Replacement(p, s, k, e) ==
    CASE p = "bold" -> SubSeq(s, k + 2, e - 3)
      [] p \in {"italic", "code"} -> SubSeq(s, k + 1, e - 2)
      [] p = "spaces" -> " "
      [] OTHER -> ""

RECURSIVE ReSub(_, _, _)

\* s from i on with the match m = <<start, end>> replaced, and the rest
\* after it
ReplaceMatch(p, s, i, m) ==
    SubSeq(s, i, m[1] - 1) \o Replacement(p, s, m[1], m[2]) \o ReSub(p, s, m[2])

\* s from i on, M the matches of p that start at i or later
ReplaceLeftmost(p, s, i, M) ==
    IF M = {} THEN SubSeq(s, i, Len(s))
    ELSE ReplaceMatch(p, s, i, CHOOSE m \in M : \A o \in M : m[1] <= o[1])

\* re.sub(p, replacement, s[i..])
ReSub(p, s, i) ==
    ReplaceLeftmost(p, s, i,
        {m \in {<<k, MatchEnd(p, s, k)>> : k \in i..Len(s)} : m[2] > 0})

\* text = re.sub(p, ..., text) for the patterns ps[n], ps[n + 1], ... in turn
RECURSIVE ReSubEach(_, _, _)
ReSubEach(ps, s, n) ==
    IF n > Len(ps) THEN s ELSE ReSubEach(ps, ReSub(ps[n], s, 1), n + 1)

\* str.strip()
StripTo(s, B) == IF B = {} THEN "" ELSE SubSeq(s, Min(B), Max(B))
Strip(s) == StripTo(s, {k \in 1..Len(s) : Char(s, k) \notin Whitespace})

\* the body of _clean_text on a non-empty str
CleanStr(s) ==
    Strip(ReSubEach(<<"tag", "bold", "italic", "heading", "code", "citation",
                      "spaces">>, s, 1))

(***************************************************************************)
(* _normalize_text and _texts_are_similar                                  *)
(***************************************************************************)
\* str.lower() of one character
LowerChar(c) ==
    IF c \in UpperSet
    THEN Char(LowerLetters, CHOOSE i \in 1..26 : Char(UpperLetters, i) = c)
    ELSE c

\* str.lower()
RECURSIVE Lower(_)
Lower(s) ==
    IF Len(s) <= 1 THEN LowerChar(s)
    ELSE LET h == Len(s) \div 2
         IN Lower(SubSeq(s, 1, h)) \o Lower(SubSeq(s, h + 1, Len(s)))

\* the body of _normalize_text
NormalizeStr(t) == ReSubEach(<<"nonword", "spaces">>, Strip(Lower(t)), 1)

\* set(text.split()): the maximal runs of non-whitespace characters
Words(s) ==
    LET starts == {a \in 1..Len(s) : /\ Char(s, a) \notin Whitespace
                                     /\ (a = 1 \/ Char(s, a - 1) \in Whitespace)}
        stop(a) == LET j == FirstIn(s, Whitespace, a)
                   IN IF j = 0 THEN Len(s) ELSE j - 1
    IN {SubSeq(s, a, stop(a)) : a \in starts}

(***************************************************************************)
(* Python values.  A value that the code may find where it expects text    *)
(* (a summary, an entry of key_findings or insights) carries its type and  *)
(* what str() prints for it.                                               *)
(***************************************************************************)
PyStr(t) == [type |-> "str", repr |-> t]
PyInt(digits) == [type |-> "int", repr |-> digits]
PyNone == [type |-> "NoneType", repr |-> "None"]

\* str(x)
Str(v) == PyStr(v.repr)

\* bool(x)
Truthy(v) ==
    CASE v.type = "str" -> v.repr # ""
      [] v.type = "int" -> v.repr # "0"
      [] OTHER -> FALSE

\* dict.get(key, default)
Get(r, key, default) == IF key \in DOMAIN r THEN r[key] ELSE default

\* a record without a status taken for a successful one
IsNotFailure(r) == Get(r, "status", "success") = "success"

\* result.get('status') == 'success'
IsSuccess(r) == Get(r, "status", None) = "success"

\* str(n) of an int
RECURSIVE IntToStr(_)
IntToStr(n) ==
    IF n < 0 THEN "-" \o IntToStr(-n)
    ELSE IF n < 10 THEN Char("0123456789", n + 1)
    ELSE IntToStr(n \div 10) \o Char("0123456789", (n % 10) + 1)

\* sep.join(seq)
RECURSIVE Join(_, _)
Join(seq, sep) ==
    IF Len(seq) = 0 THEN ""
    ELSE IF Len(seq) = 1 THEN seq[1]
    ELSE seq[1] \o sep \o Join(Tail(seq), sep)

\* the concatenation of a sequence of sequences (nested for loops that append)
RECURSIVE Flatten(_)
Flatten(ss) ==
    IF Len(ss) = 0 THEN <<>>
    ELSE IF Len(ss) = 1 THEN ss[1]
    ELSE LET h == Len(ss) \div 2
         IN Flatten(SubSeq(ss, 1, h)) \o Flatten(SubSeq(ss, h + 1, Len(ss)))

\* sum(f(r) for r in seq), seq a sequence of integers
RECURSIVE Sum(_)
Sum(seq) == IF Len(seq) = 0 THEN 0 ELSE Head(seq) + Sum(Tail(seq))

\* seq, not cut
TakeAll(seq, n) == seq

\* seq[:n]
Take(seq, n) == SubSeq(seq, 1, IF Len(seq) < n THEN Len(seq) ELSE n)

\* sub in s
ContainsStr(s, sub) ==
    \E i \in 1..(Len(s) - Len(sub) + 1) : SubSeq(s, i, i + Len(sub) - 1) = sub

\* A set of str is a hash table of 8 slots (no set here grows past 4 names):
\* a name goes to the first free slot of its probe sequence, which the hash
\* of the name fixes, and iterating the set visits the slots in order.  The
\* hashes are salted per process: probes maps each name to its probe
\* sequence in the running process.
EmptySet == [slot \in 0..7 |-> None]

SetAdd(table, name, probes) ==
    IF \E slot \in 0..7 : table[slot] = name THEN table
    ELSE LET free == {k \in 1..Len(probes[name]) : table[probes[name][k]] = None}
         IN [table EXCEPT ![probes[name][Min(free)]] = name]

\* the set after adding names[i], names[i + 1], ... to table
RECURSIVE SetUpdate(_, _, _, _)
SetUpdate(table, names, i, probes) ==
    IF i > Len(names) THEN table
    ELSE SetUpdate(SetAdd(table, names[i], probes), names, i + 1, probes)

\* set(names)
SetOf(names, probes) == SetUpdate(EmptySet, names, 1, probes)

\* list(table)
ListOfSet(table) ==
    SelectSeq([i \in 1..8 |-> table[i - 1]], LAMBDA name : name # None)

\* the probe sequences of the agent names as CPython 3.11 computes them when
\* the salt is PYTHONHASHSEED; salts past 3 repeat these
ProbeSequences(salt) ==
    LET seed == salt % 4
    IN IF seed = 0 THEN
            [perplexity |-> <<2, 5, 4, 3, 6, 4>>, youtube |-> <<4, 1, 6, 4, 4, 1>>,
             unknown |-> <<6, 5, 5, 1, 4, 1>>, api |-> <<6, 4, 2, 2, 0, 2>>]
       ELSE IF seed = 1 THEN
            [perplexity |-> <<2, 7, 4, 0, 6, 6>>, youtube |-> <<1, 0, 0, 7, 7, 6>>,
             unknown |-> <<1, 0, 3, 6, 0, 5>>, api |-> <<6, 5, 1, 6, 3, 6>>]
       ELSE IF seed = 2 THEN
            [perplexity |-> <<7, 5, 2, 4, 1, 6>>, youtube |-> <<6, 7, 6, 7, 5, 1>>,
             unknown |-> <<3, 0, 5, 3, 0, 0>>, api |-> <<3, 5, 2, 7, 1, 2>>]
       ELSE [perplexity |-> <<2, 6, 7, 3, 7, 6>>, youtube |-> <<1, 5, 0, 0, 6, 2>>,
             unknown |-> <<0, 6, 0, 1, 4, 6>>, api |-> <<4, 6, 7, 1, 7, 0>>]

\* a function that returned / raised
Return(v) == [raised |-> None, value |-> v]
Raise(e) == [raised |-> e, value |-> 0]

(***************************************************************************)
(* Agent results that the specifications draw their inputs from.           *)
(***************************************************************************)
\* a full record; its findings carry markup and one is short
PerplexityResult ==
    [status |-> "success",
     agent_name |-> "perplexity",
     summary |-> PyStr("**Revenue** grew strongly this year according to <b>several</b> analysts [1] and reports."),
     key_findings |-> <<
            PyStr("Revenue increased 20 percent year over year"),
            PyStr("Market sentiment is bullish on this stock"),
            PyStr("## Treatment is ~effective~ and **safe** [2]"),
            PyStr("Short one")>>,
     insights |-> <<
            PyStr("Analysts expect that demand increases next quarter")>>,
     sources |-> <<"u1", "u2">>,
     source_count |-> 5,
     tokens |-> 100,
     cost |-> 3]

\* a second full record, with no source_count; two of its findings restate
\* findings of PerplexityResult, and its insight opposes that record's insight
YoutubeResult ==
    [status |-> "success",
     agent_name |-> "youtube",
     summary |-> PyStr("Video reviews describe the product launch as a success with strong early demand overall."),
     key_findings |-> <<
            PyStr("Revenue increased twenty percent YoY"),
            PyStr("Revenue increased 20 percent year over year again"),
            PyStr("Analysts remain bearish on this stock")>>,
     insights |-> <<
            PyStr("Analysts expect that demand decreases next quarter")>>,
     sources |-> <<"u3">>,
     tokens |-> 50,
     cost |-> 1]

\* an agent that reported an error: text, sources and counts that must not be used
ApiError ==
    [status |-> "error",
     agent_name |-> "api",
     summary |-> PyStr("Request failed: the upstream service returned an error for bearish reports"),
     key_findings |-> <<
            PyStr("Failed agent finding that is bearish and long enough")>>,
     insights |-> <<
            PyStr("Failed agent insight that is negative and long enough")>>,
     sources |-> <<"u4", "u5">>,
     source_count |-> 7,
     tokens |-> 9,
     cost |-> 9]

\* a successful record with no other key
BareSuccess ==
    [status |-> "success"]

\* entries and a summary that are not str; a second record named perplexity
NonTextEntries ==
    [status |-> "success",
     agent_name |-> "perplexity",
     summary |-> PyInt("7"),
     key_findings |-> <<
            PyInt("42"),
            PyNone,
            PyStr("")>>,
     sources |-> <<>>,
     source_count |-> 12]

\* a record with no status key, and a negative source_count
NoStatus ==
    [agent_name |-> "youtube",
     summary |-> PyStr("Video reviews describe the product launch as a success with strong early demand overall."),
     key_findings |-> <<
            PyStr("Market sentiment is bullish on this stock")>>,
     source_count |-> -5,
     sources |-> <<"u6">>]

\* more findings and insights than the output keeps, all pairwise dissimilar
ManyIncreases ==
    [status |-> "success",
     agent_name |-> "perplexity",
     key_findings |-> <<
            PyStr("alphaf onealpha twoalpha increases"),
            PyStr("betaf onebeta twobeta increases"),
            PyStr("gammaf onegamma twogamma increases"),
            PyStr("deltaf onedelta twodelta increases"),
            PyStr("epsilonf oneepsilon twoepsilon increases"),
            PyStr("zetaf onezeta twozeta increases"),
            PyStr("etaf oneeta twoeta increases"),
            PyStr("thetaf onetheta twotheta increases"),
            PyStr("iotaf oneiota twoiota increases"),
            PyStr("kappaf onekappa twokappa increases"),
            PyStr("lambdaf onelambda twolambda increases")>>,
     insights |-> <<
            PyStr("alphai onealpha twoalpha positive"),
            PyStr("betai onebeta twobeta positive"),
            PyStr("gammai onegamma twogamma positive"),
            PyStr("deltai onedelta twodelta positive"),
            PyStr("epsiloni oneepsilon twoepsilon positive"),
            PyStr("zetai onezeta twozeta positive"),
            PyStr("etai oneeta twoeta positive"),
            PyStr("thetai onetheta twotheta positive"),
            PyStr("iotai oneiota twoiota positive")>>,
     source_count |-> 30,
     sources |-> <<"u7">>]

\* statements that oppose every statement of ManyIncreases
FewDecreases ==
    [status |-> "success",
     agent_name |-> "youtube",
     key_findings |-> <<
            PyStr("omega sigma tau upsilon decreases"),
            PyStr("?! ?! ?! ?! ?! ?! ?! ?! ?!")>>,
     insights |-> <<
            PyStr("omega sigma tau upsilon negative")>>,
     source_count |-> 2]

Pool == {PerplexityResult, YoutubeResult, ApiError, BareSuccess, NonTextEntries, NoStatus, ManyIncreases, FewDecreases}

\* one successful agent with 5 sources, one finding and no insight
SingleFinding ==
    [status |-> "success",
     source_count |-> 5,
     key_findings |-> <<
            PyStr("Finding A long enough to pass the twenty character filter")>>,
     insights |-> <<>>]

\* a successful agent that reports its findings under the key findings, as
\* agents/api_agent.py does
FindingsKey ==
    [status |-> "success",
     agent_name |-> "api",
     summary |-> PyStr("Retrieved 12 news articles"),
     findings |-> <<
            PyStr("Found 12 news articles on the bearish market")>>,
     insights |-> <<
            PyStr("Topic is covered in recent news")>>,
     source_count |-> 12]

\* two agents that report the same fact in different words
RevenueA ==
    [status |-> "success",
     agent_name |-> "perplexity",
     key_findings |-> <<PyStr("Revenue increased 20 percent year over year")>>]

RevenueB ==
    [status |-> "success",
     agent_name |-> "youtube",
     key_findings |-> <<PyStr("Revenue increased twenty percent YoY")>>]

\* two agents whose insights hold the two words of one keyword pair
BullishA ==
    [status |-> "success",
     agent_name |-> "perplexity",
     insights |-> <<PyStr("Market sentiment is bullish on this stock")>>]

BearishB ==
    [status |-> "success",
     agent_name |-> "youtube",
     insights |-> <<PyStr("Analysts remain bearish on this stock")>>]

\* an agent whose finding opposes a finding of PerplexityResult in the words
\* of two keyword pairs
Unsafe ==
    [status |-> "success",
     agent_name |-> "youtube",
     key_findings |-> <<PyStr("Treatment is ineffective and unsafe for patients")>>]

\* three successful agents with 35 sources, 12 findings and 6 insights together
CoverageA ==
    [status |-> "success",
     agent_name |-> "perplexity",
     key_findings |-> <<
            PyStr("Web finding one about the bond market"),
            PyStr("Web finding two about the housing market"),
            PyStr("Web finding three about the labour market"),
            PyStr("Web finding four about the energy market")>>,
     insights |-> <<
            PyStr("Web insight one about the credit outlook"),
            PyStr("Web insight two about the growth outlook")>>,
     source_count |-> 15]

CoverageB ==
    [status |-> "success",
     agent_name |-> "youtube",
     key_findings |-> <<
            PyStr("Video finding one about the bond market"),
            PyStr("Video finding two about the housing market"),
            PyStr("Video finding three about the labour market"),
            PyStr("Video finding four about the energy market")>>,
     insights |-> <<
            PyStr("Video insight one about the credit outlook"),
            PyStr("Video insight two about the growth outlook")>>,
     source_count |-> 12]

CoverageC ==
    [status |-> "success",
     agent_name |-> "api",
     key_findings |-> <<
            PyStr("News finding one about the bond market"),
            PyStr("News finding two about the housing market"),
            PyStr("News finding three about the labour market"),
            PyStr("News finding four about the energy market")>>,
     insights |-> <<
            PyStr("News insight one about the credit outlook"),
            PyStr("News insight two about the growth outlook")>>,
     source_count |-> 8]

\* an agent with entries that clean to 20 and to 21 characters
Boundary ==
    [status |-> "success",
     agent_name |-> "perplexity",
     key_findings |-> <<PyStr("Sales rose in Europe"), PyStr("Costs fell in Germany")>>,
     insights |-> <<PyStr("Demand grew in Spain"), PyStr("Prices drop in Norway")>>]

\* one agent that reports both views
BothViews ==
    [status |-> "success",
     agent_name |-> "perplexity",
     insights |-> <<PyStr("Market sentiment is bullish on this stock"),
                    PyStr("Analysts remain bearish on this stock")>>]

\* two agents whose findings hold the words growth and decline and no other
\* keyword
GrowthA ==
    [status |-> "success",
     agent_name |-> "perplexity",
     key_findings |-> <<PyStr("The sector shows steady growth this year")>>]

DeclineB ==
    [status |-> "success",
     agent_name |-> "youtube",
     key_findings |-> <<PyStr("The sector is in decline this year")>>]

\* lists of agent results that are given in full
Scenarios ==
    {<<SingleFinding>>, <<FindingsKey>>, <<PerplexityResult, FindingsKey>>,
     <<RevenueA, RevenueB>>, <<BullishA, BearishB>>, <<PerplexityResult, Unsafe>>,
     <<CoverageA, CoverageB>>, <<CoverageA, CoverageB, CoverageC>>,
     <<Boundary>>, <<BothViews, BullishA>>,
     <<GrowthA, DeclineB>>}
ScenarioRecords == UNION {{list[i] : i \in 1..Len(list)} : list \in Scenarios}

(***************************************************************************)
(* The text functions on the pool's texts.  TLC evaluates a definition     *)
(* without parameters once, so each table holds the function's value for   *)
(* every text the pool can hand to it; other arguments are computed.       *)
(***************************************************************************)
EntryTexts(list) == {list[k].repr : k \in 1..Len(list)}
RawTexts ==
    UNION {EntryTexts(Get(r, "key_findings", <<>>))
               \cup EntryTexts(Get(r, "insights", <<>>))
               \cup {Get(r, "summary", PyStr("")).repr} :
                   r \in Pool \cup ScenarioRecords}

\* the values of F on S / the values that a table holds
TableOf(F(_), S) == [t \in S |-> F(t)]
Values(table) == {table[t] : t \in DOMAIN table}

\* F(key), looked up when the table holds it
Memo(table, key, F(_)) == IF key \in DOMAIN table THEN table[key] ELSE F(key)

AllKeywords ==
    {"increases", "decreases", "positive", "negative", "bullish", "bearish",
     "effective", "ineffective", "safe", "unsafe", "recommended",
     "not recommended", "growth", "decline", "up", "down"}

\* the keywords w with w in t
KeywordsIn(t) == {w \in AllKeywords : ContainsStr(t, w)}

CleanTable == TableOf(CleanStr, RawTexts)
NormalizeTable == TableOf(NormalizeStr, Values(CleanTable))
WordsTable == TableOf(Words, Values(NormalizeTable))
LowerTable == TableOf(Lower, Values(CleanTable))
KeywordTable == TableOf(KeywordsIn, Values(LowerTable))

\* re.sub chain of _clean_text
Cleaned(t) == Memo(CleanTable, t, CleanStr)

\* text.lower()
Lowered(t) == Memo(LowerTable, t, Lower)

\* set(text.split())
Split(t) == Memo(WordsTable, t, Words)

\* sub in s
Contains(s, sub) ==
    IF sub \in AllKeywords THEN sub \in Memo(KeywordTable, s, KeywordsIn)
    ELSE ContainsStr(s, sub)

_normalize_text(t) == Memo(NormalizeTable, t, NormalizeStr)

\* only equal texts taken for similar
TextsAreEqual(text1, text2) == text1 = text2

\* the common words weighed against the shorter text, not against the union
OverlapOfShorter(text1, text2) ==
    LET words1 == Split(text1)
        words2 == Split(text2)
    IN IF words1 = {} \/ words2 = {} THEN FALSE
       ELSE 10 * Cardinality(words1 \cap words2)
                >= 6 * (IF Cardinality(words1) < Cardinality(words2)
                        THEN Cardinality(words1) ELSE Cardinality(words2))

\* len(intersection) / len(union) >= 0.6, on integers
_texts_are_similar(text1, text2) ==
    LET words1 == Split(text1)
        words2 == Split(text2)
    IN IF words1 = {} \/ words2 = {} THEN FALSE
       ELSE 10 * Cardinality(words1 \cap words2)
                >= 6 * Cardinality(words1 \cup words2)

(***************************************************************************)
(* EnhancedResultConsolidator                                              *)
(***************************************************************************)
_clean_text(v) ==
    IF ~Truthy(v) \/ v.type # "str" THEN "" ELSE Cleaned(v.repr)

\* the fallback sentence with the two counts in each other's place
FallbackSwapped(query, domain, total_sources, agent_count) ==
    "Comprehensive research on '" \o query \o "' in the " \o domain
    \o " domain. Analysis utilized " \o IntToStr(total_sources)
    \o " specialized agent(s) to examine " \o IntToStr(agent_count)
    \o " sources, providing multi-dimensional insights across various information channels. "
    \o "Detailed findings and sources are available in the respective tabs."

_generate_fallback_summary(query, domain, total_sources, agent_count) ==
    "Comprehensive research on '" \o query \o "' in the " \o domain
    \o " domain. Analysis utilized " \o IntToStr(agent_count)
    \o " specialized agent(s) to examine " \o IntToStr(total_sources)
    \o " sources, providing multi-dimensional insights across various information channels. "
    \o "Detailed findings and sources are available in the respective tabs."

\* sum(r.get('source_count', 0) for r in agent_results)
TotalSourceCount(agent_results) ==
    Sum([i \in 1..Len(agent_results) |-> Get(agent_results[i], "source_count", 0)])

\* the agent_name of the records with status success, in order
SuccessfulNames(agent_results) ==
    Flatten([i \in 1..Len(agent_results) |->
        IF IsSuccess(agent_results[i])
        THEN <<Get(agent_results[i], "agent_name", "unknown")>> ELSE <<>>])

\* the list summaries of _synthesize_summary
QualifyingSummaries(agent_results) ==
    Flatten([i \in 1..Len(agent_results) |->
        LET result == agent_results[i]
            summary == Get(result, "summary", PyStr(""))
            clean_summary == _clean_text(summary)
        IN IF IsSuccess(result) /\ Truthy(summary) /\ Len(clean_summary) > 50
           THEN <<[text |-> clean_summary,
                   agent |-> Get(result, "agent_name", "unknown"),
                   length |-> Len(clean_summary)]>>
           ELSE <<>>])

\* the summary of the first agent, whatever its length
FirstSummary(summaries) == summaries[1]

\* max(summaries, key=lambda x: x['length']): the first of maximal length
PrimarySummary(summaries) ==
    summaries[Min({i \in 1..Len(summaries) :
                     \A j \in 1..Len(summaries) :
                         summaries[j].length <= summaries[i].length})]

_synthesize_summary(agent_results, query, domain, probes) ==
    LET summaries == QualifyingSummaries(agent_results)
        agent_names == [i \in 1..Len(summaries) |-> summaries[i].agent]
        unique_agents == ListOfSet(SetOf(agent_names, probes))
        intro == "**Multi-Agent Research Analysis** ("
                     \o IntToStr(Len(agent_names)) \o " agents): "
        note == IF Len(unique_agents) > 1
                THEN "Insights synthesized from "
                         \o Join(unique_agents, ", ")
                         \o " sources. "
                ELSE ""
    IN IF Len(summaries) = 0
       THEN _generate_fallback_summary(query, domain,
                TotalSourceCount(agent_results),
                Len(SuccessfulNames(agent_results)))
       ELSE IF Len(summaries) = 1 THEN summaries[1].text
       ELSE intro \o note \o PrimarySummary(summaries).text

\* the entries of the list that clean to 20 characters or more
EntriesFrom20(list) ==
    Flatten([k \in 1..Len(list) |->
        LET clean == _clean_text(Str(list[k]))
        IN IF clean # "" /\ Len(clean) >= 20 THEN <<clean>> ELSE <<>>])

\* for finding in findings_list: the cleaned entries longer than 20
LongEntries(list) ==
    Flatten([k \in 1..Len(list) |->
        LET clean == _clean_text(Str(list[k]))
        IN IF clean # "" /\ Len(clean) > 20 THEN <<clean>> ELSE <<>>])

\* the list findings_data of _synthesize_findings
FindingsData(agent_results) ==
    Flatten([i \in 1..Len(agent_results) |->
        LET result == agent_results[i]
            texts == LongEntries(Get(result, "key_findings", <<>>))
        IN IF IsSuccess(result)
           THEN [k \in 1..Len(texts) |->
                    [text |-> texts[k],
                     agent |-> Get(result, "agent_name", "unknown"),
                     normalized |-> _normalize_text(texts[k])]]
           ELSE <<>>])

\* the deduplication loop of _synthesize_findings, from item i on
RECURSIVE DedupFindings(_, _, _, _)
DedupFindings(findings_data, i, unique_findings, seen_normalized) ==
    IF i > Len(findings_data) THEN unique_findings
    ELSE LET normalized == findings_data[i].normalized
             is_duplicate == \E seen \in seen_normalized :
                                 _texts_are_similar(normalized, seen)
         IN IF is_duplicate
            THEN DedupFindings(findings_data, i + 1, unique_findings,
                               seen_normalized)
            ELSE DedupFindings(findings_data, i + 1,
                               Append(unique_findings, findings_data[i].text),
                               seen_normalized \cup {normalized})

NoFindingsText ==
    "No structured findings were extracted from the research. "
    \o "Review individual agent results for detailed information."

\* _synthesize_findings with the later of two similar findings kept: a
\* finding is dropped when a similar one that is kept follows it
FindingsKeepingLater(agent_results) ==
    LET findings_data == FindingsData(agent_results)
        n == Len(findings_data)
        kept[i \in 1..n] ==
            ~\E j \in (i + 1)..n :
                 /\ kept[j]
                 /\ _texts_are_similar(findings_data[i].normalized,
                                       findings_data[j].normalized)
    IN IF n = 0 THEN <<NoFindingsText>>
       ELSE Take(Flatten([i \in 1..n |->
                     IF kept[i] THEN <<findings_data[i].text>> ELSE <<>>]), 10)

\* if not findings_data: the placeholder; else the first 10 unique findings
_synthesize_findings(agent_results) ==
    LET findings_data == FindingsData(agent_results)
    IN IF Len(findings_data) = 0 THEN <<NoFindingsText>>
       ELSE Take(DedupFindings(findings_data, 1, <<>>, {}), 10)

domain_insights ==
    [technology |-> <<
        "Technology landscape analysis reveals emerging trends and innovation patterns",
        "Cross-referencing technical sources provides validation of technological claims">>,
     medical |-> <<
        "Clinical evidence synthesis requires careful evaluation of source quality and methodology",
        "Multiple data sources help identify consensus and areas of ongoing research">>,
     academic |-> <<
        "Scholarly research benefits from diverse source types including peer-reviewed papers and expert analysis",
        "Academic consensus emerges from systematic evaluation of multiple authoritative sources">>,
     stocks |-> <<
        "Market analysis requires integration of quantitative data, analyst opinions, and news sentiment",
        "Multiple information sources help identify investment opportunities while managing risk">>]

\* the body of _generate_domain_insights, over the table of its class
DomainInsights(agent_results, domain, table) ==
    LET total_sources == TotalSourceCount(agent_results)
        agent_names == SuccessfulNames(agent_results)
        first == "Research incorporates " \o IntToStr(total_sources)
                 \o " sources from " \o IntToStr(Len(agent_names))
                 \o " specialized agents, providing comprehensive multi-perspective analysis"
    IN Take(<<first>> \o
            (IF domain \in DOMAIN table THEN table[domain]
             ELSE <<"Multi-source analysis provides robust foundation for informed decision-making">>),
            5)

_generate_domain_insights(agent_results, domain) ==
    DomainInsights(agent_results, domain, domain_insights)

\* the list insights_data of _synthesize_insights
InsightsData(agent_results) ==
    Flatten([i \in 1..Len(agent_results) |->
        IF IsSuccess(agent_results[i])
        THEN LongEntries(Get(agent_results[i], "insights", <<>>))
        ELSE <<>>])

\* the deduplication loop of _synthesize_insights, from item i on
RECURSIVE DedupInsights(_, _, _)
DedupInsights(insights_data, i, unique_insights) ==
    IF i > Len(insights_data) THEN unique_insights
    ELSE LET normalized == _normalize_text(insights_data[i])
             is_duplicate ==
                 \E k \in 1..Len(unique_insights) :
                     _texts_are_similar(normalized,
                                        _normalize_text(unique_insights[k]))
         IN DedupInsights(insights_data, i + 1,
                IF is_duplicate THEN unique_insights
                ELSE Append(unique_insights, insights_data[i]))

\* the agents' insights alone, with no fallback when there is none
InsightsWithoutFallback(agent_results, domain) ==
    Take(DedupInsights(InsightsData(agent_results), 1, <<>>), 8)

_synthesize_insights(agent_results, domain) ==
    LET unique_insights == DedupInsights(InsightsData(agent_results), 1, <<>>)
    IN Take(IF Len(unique_insights) = 0
            THEN _generate_domain_insights(agent_results, domain)
            ELSE unique_insights, 8)

\* the statements of a list with their texts as the agent wrote them
StatementsAsGiven(list, agent_name, type) ==
    Flatten([k \in 1..Len(list) |->
        IF Str(list[k]).repr # ""
        THEN <<[text |-> Str(list[k]).repr, agent |-> agent_name, type |-> type]>>
        ELSE <<>>])

\* the statements of one list of one agent: every entry that cleans to text
Statements(list, agent_name, type) ==
    Flatten([k \in 1..Len(list) |->
        LET clean_text == _clean_text(Str(list[k]))
        IN IF clean_text # ""
           THEN <<[text |-> clean_text, agent |-> agent_name, type |-> type]>>
           ELSE <<>>])

\* the list all_statements of _detect_contradictions
AllStatements(agent_results) ==
    Flatten([i \in 1..Len(agent_results) |->
        LET result == agent_results[i]
            agent_name == Get(result, "agent_name", "unknown")
        IN IF IsSuccess(result)
           THEN Statements(Get(result, "key_findings", <<>>), agent_name, "finding")
                \o Statements(Get(result, "insights", <<>>), agent_name, "insight")
           ELSE <<>>])

contradiction_keywords ==
    << <<"increases", "decreases">>, <<"positive", "negative">>,
       <<"bullish", "bearish">>, <<"effective", "ineffective">>,
       <<"safe", "unsafe">>, <<"recommended", "not recommended">> >>

\* some keyword pair has one word in each text (the first such pair ends the scan)
KeywordsClash(keywords, text1_lower, text2_lower) ==
    \E p \in 1..Len(keywords) :
        \/ Contains(text1_lower, keywords[p][1]) /\ Contains(text2_lower, keywords[p][2])
        \/ Contains(text1_lower, keywords[p][2]) /\ Contains(text2_lower, keywords[p][1])

\* the loops of _detect_contradictions without the break: one record for
\* every keyword pair that has one word in each text
ContradictionsPerKeyword(all_statements, keywords) ==
    LET n == Len(all_statements)
        lowered == [i \in 1..n |-> Lowered(all_statements[i].text)]
    IN Flatten([i \in 1..n |-> Flatten([d \in 1..(n - i) |->
           LET stmt1 == all_statements[i]
               stmt2 == all_statements[i + d]
           IN Flatten([p \in 1..Len(keywords) |->
                  IF stmt1.agent # stmt2.agent
                     /\ KeywordsClash(<<keywords[p]>>, lowered[i], lowered[i + d])
                  THEN <<[agent1 |-> stmt1.agent,
                          statement1 |-> Take(stmt1.text, 100) \o "...",
                          agent2 |-> stmt2.agent,
                          statement2 |-> Take(stmt2.text, 100) \o "...",
                          type |-> "potential_contradiction"]>>
                  ELSE <<>>])])])

\* the loops over statement pairs of _detect_contradictions
ContradictionsOf(all_statements, keywords) ==
    LET n == Len(all_statements)
        lowered == [i \in 1..n |-> Lowered(all_statements[i].text)]
    IN Flatten([i \in 1..n |-> Flatten([d \in 1..(n - i) |->
           LET stmt1 == all_statements[i]
               stmt2 == all_statements[i + d]
           IN IF stmt1.agent # stmt2.agent
                 /\ KeywordsClash(keywords, lowered[i], lowered[i + d])
              THEN <<[agent1 |-> stmt1.agent,
                      statement1 |-> Take(stmt1.text, 100) \o "...",
                      agent2 |-> stmt2.agent,
                      statement2 |-> Take(stmt2.text, 100) \o "...",
                      type |-> "potential_contradiction"]>>
              ELSE <<>>])])

\* _detect_contradictions without the test of the agents: every pair of
\* statements is compared
ContradictionsAmongAll(agent_results) ==
    LET all_statements == AllStatements(agent_results)
        n == Len(all_statements)
        lowered == [i \in 1..n |-> Lowered(all_statements[i].text)]
    IN Take(Flatten([i \in 1..n |-> Flatten([d \in 1..(n - i) |->
           LET stmt1 == all_statements[i]
               stmt2 == all_statements[i + d]
           IN IF KeywordsClash(contradiction_keywords, lowered[i], lowered[i + d])
              THEN <<[agent1 |-> stmt1.agent,
                      statement1 |-> Take(stmt1.text, 100) \o "...",
                      agent2 |-> stmt2.agent,
                      statement2 |-> Take(stmt2.text, 100) \o "...",
                      type |-> "potential_contradiction"]>>
              ELSE <<>>])]), 5)

\* every pair of statements, and return contradictions[:5]
_detect_contradictions(agent_results) ==
    Take(ContradictionsOf(AllStatements(agent_results), contradiction_keywords), 5)

\* sum(len(r.get(key, [])) for r in agent_results)
TotalLen(agent_results, key) ==
    Sum([i \in 1..Len(agent_results) |-> Len(Get(agent_results[i], key, <<>>))])

\* round(x, 1) of x = (base + num / den) / 10, in tenths: to the nearest
\* tenth, a tie going to the even one
RoundTenths(base, num, den) ==
    LET q == base + (num \div den)
        rem == num % den
    IN IF 2 * rem < den THEN q
       ELSE IF 2 * rem > den THEN q + 1
       ELSE IF q % 2 = 0 THEN q ELSE q + 1

\* the factors source_diversity, finding_consistency and insight_depth of
\* _calculate_confidence_score, added up, in tenths
OtherFactors(agent_results) ==
    LET total_sources == TotalSourceCount(agent_results)
        total_findings == TotalLen(agent_results, "key_findings")
        total_insights == TotalLen(agent_results, "insights")
        \* min(total_sources / 10, 1.0) * 30
        source_diversity == 30 * (IF total_sources < 10 THEN total_sources ELSE 10)
        \* min(total_findings / 20, 1.0) * 20
        finding_consistency ==
            IF total_findings > 0
            THEN 10 * (IF total_findings < 20 THEN total_findings ELSE 20) ELSE 0
        \* min(total_insights / 10, 1.0) * 20
        insight_depth ==
            IF total_insights > 0
            THEN 20 * (IF total_insights < 10 THEN total_insights ELSE 10) ELSE 0
    IN source_diversity + finding_consistency + insight_depth

\* _calculate_confidence_score after its guard; the score is in tenths
ScoreFactors(agent_results) ==
    IF Len(agent_results) = 0 THEN Raise("ZeroDivisionError")
    ELSE Return(RoundTenths(OtherFactors(agent_results),
                            \* (successful / len(agent_results)) * 30
                            300 * Len(SuccessfulNames(agent_results)),
                            Len(agent_results)))

\* the score without the guard for the empty list
ScoreUnguarded(agent_results) == ScoreFactors(agent_results)

\* the success rate taken over the successful records alone
ScoreOverSuccessful(agent_results) ==
    Return(RoundTenths(OtherFactors(agent_results),
                       300 * Len(SuccessfulNames(agent_results)),
                       IF Len(SuccessfulNames(agent_results)) = 0 THEN 1
                       ELSE Len(SuccessfulNames(agent_results))))

\* if not agent_results: return 0.0
_calculate_confidence_score(agent_results) ==
    IF Len(agent_results) = 0 THEN Return(0) ELSE ScoreFactors(agent_results)

\* the breadth tiers of _analyze_coverage with the two upper limits excluded
BreadthAbove(total_sources) ==
    IF total_sources > 30 THEN "excellent"
    ELSE IF total_sources > 15 THEN "good"
    ELSE IF total_sources < 5 THEN "limited"
    ELSE "medium"

\* Breadth assessment
CoverageBreadth(total_sources) ==
    IF total_sources >= 30 THEN "excellent"
    ELSE IF total_sources >= 15 THEN "good"
    ELSE IF total_sources < 5 THEN "limited"
    ELSE "medium"

\* Depth assessment (based on findings and insights)
CoverageDepth(total_findings, total_insights) ==
    IF total_findings >= 10 /\ total_insights >= 5 THEN "excellent"
    ELSE IF total_findings >= 5 /\ total_insights >= 3 THEN "good"
    ELSE IF total_findings < 3 THEN "limited"
    ELSE "medium"

\* the recommendations of _analyze_coverage as one if / elif chain: at most
\* one of them is appended
FirstRecommendation(agent_types, total_sources, total_insights) ==
    IF Len(agent_types) = 1
    THEN <<"Consider using multiple agents for broader perspective">>
    ELSE IF total_sources < 10
    THEN <<"Increase source count for more comprehensive analysis">>
    ELSE IF total_insights < 3
    THEN <<"Refine query to generate more actionable insights">>
    ELSE <<>>

\* Recommendations
CoverageRecommendations(agent_types, total_sources, total_insights) ==
    (IF Len(agent_types) = 1
     THEN <<"Consider using multiple agents for broader perspective">>
     ELSE <<>>)
    \o (IF total_sources < 10
        THEN <<"Increase source count for more comprehensive analysis">>
        ELSE <<>>)
    \o (IF total_insights < 3
        THEN <<"Refine query to generate more actionable insights">>
        ELSE <<>>)

_analyze_coverage(agent_results, domain, probes) ==
    LET total_sources == TotalSourceCount(agent_results)
        total_findings == TotalLen(agent_results, "key_findings")
        total_insights == TotalLen(agent_results, "insights")
        agent_types == ListOfSet(SetOf(SuccessfulNames(agent_results), probes))
    IN [breadth |-> CoverageBreadth(total_sources),
        depth |-> CoverageDepth(total_findings, total_insights),
        recency |-> "unknown",
        source_types |-> agent_types,
        recommendations |->
            CoverageRecommendations(agent_types, total_sources, total_insights)]

\* the sources of every record, successful or not
AllSourcesOfAll(agent_results) ==
    Flatten([i \in 1..Len(agent_results) |->
        Get(agent_results[i], "sources", <<>>)])

\* the list all_sources of consolidate_results
AllSources(agent_results) ==
    Flatten([i \in 1..Len(agent_results) |->
        IF IsSuccess(agent_results[i])
        THEN Get(agent_results[i], "sources", <<>>) ELSE <<>>])

\* total_tokens and total_cost of consolidate_results
TotalOverSuccess(agent_results, key) ==
    Sum([i \in 1..Len(agent_results) |->
        IF IsSuccess(agent_results[i]) THEN Get(agent_results[i], key, 0) ELSE 0])

\* consolidate_results; now is the clock's reading, probes the probe
\* sequences of the agent names in this process.  A call that raises returns no record: the
\* result holds the exception alone.
consolidate_results(query, domain, agent_results, execution_time, now, probes) ==
    LET successful_agents == SuccessfulNames(agent_results)
        confidence_score == _calculate_confidence_score(agent_results)
    IN IF confidence_score.raised # None
       THEN [raised |-> confidence_score.raised]
       ELSE [raised |-> None,
             query |-> query,
             domain |-> domain,
             summary |-> _synthesize_summary(agent_results, query, domain, probes),
             key_findings |-> _synthesize_findings(agent_results),
             insights |-> _synthesize_insights(agent_results, domain),
             contradictions |-> _detect_contradictions(agent_results),
             confidence_score |-> confidence_score.value,
             coverage_analysis |-> _analyze_coverage(agent_results, domain, probes),
             agent_results |-> agent_results,
             successful_agents |-> successful_agents,
             total_sources |-> Len(AllSources(agent_results)),
             total_tokens |-> TotalOverSuccess(agent_results, "tokens"),
             total_cost |-> TotalOverSuccess(agent_results, "cost"),
             execution_time |-> execution_time,
             timestamp |-> now,
             synthesis_quality |->
                 IF Len(successful_agents) > 1 THEN "high" ELSE "medium"]

(***************************************************************************)
(* ResearchWorkflow: its own copies of the synthesis methods, where they   *)
(* differ from EnhancedResultConsolidator's                                *)
(***************************************************************************)
Workflow_synthesize_summary(agent_results, query, domain, probes) ==
    LET summaries == QualifyingSummaries(agent_results)
        agent_names == ListOfSet(SetOf([i \in 1..Len(summaries) |-> summaries[i].agent],
                                       probes))
        intro == "**Multi-Agent Analysis** ("
                     \o IntToStr(Len(agent_names)) \o " agents): "
        note == IF Len(agent_names) > 1
                THEN "Insights synthesized from "
                         \o Join(agent_names, ", ") \o " sources. "
                ELSE ""
    IN IF Len(summaries) = 0
       THEN _generate_fallback_summary(query, domain,
                TotalSourceCount(agent_results),
                Len(SuccessfulNames(agent_results)))
       ELSE IF Len(summaries) = 1 THEN summaries[1].text
       ELSE intro \o note \o PrimarySummary(summaries).text

Workflow_synthesize_findings(agent_results) ==
    LET findings_data == FindingsData(agent_results)
    IN IF Len(findings_data) = 0 THEN <<>>
       ELSE Take(DedupFindings(findings_data, 1, <<>>, {}), 10)

Workflow_domain_insights ==
    [technology |-> <<
        "Technology landscape analysis reveals emerging trends and innovation patterns",
        "Cross-referencing technical sources provides validation of technological claims">>,
     medical |-> <<
        "Clinical evidence synthesis requires careful evaluation of source quality and methodology",
        "Multiple data sources help identify consensus and areas of ongoing research">>,
     academic |-> <<
        "Scholarly research benefits from diverse source types including peer-reviewed papers",
        "Academic consensus emerges from systematic evaluation of multiple authoritative sources">>,
     stocks |-> <<
        "Market analysis requires integration of quantitative data, analyst opinions, and sentiment",
        "Multiple information sources help identify investment opportunities while managing risk">>]

Workflow_synthesize_insights(agent_results, domain) ==
    LET unique_insights == DedupInsights(InsightsData(agent_results), 1, <<>>)
    IN Take(IF Len(unique_insights) = 0
            THEN DomainInsights(agent_results, domain, Workflow_domain_insights)
            ELSE unique_insights, 8)

Workflow_contradiction_keywords ==
    contradiction_keywords \o << <<"growth", "decline">>, <<"up", "down">> >>

Workflow_detect_contradictions(agent_results) ==
    Take(ContradictionsOf(AllStatements(agent_results),
                          Workflow_contradiction_keywords), 5)

\* the coverage dict of the workflow has no recency
Workflow_analyze_coverage(agent_results, domain, probes) ==
    LET coverage == _analyze_coverage(agent_results, domain, probes)
    IN [k \in DOMAIN coverage \ {"recency"} |-> coverage[k]]

_consolidate_results(query, domain, agent_results, execution_time, now, probes) ==
    LET successful_agents == SuccessfulNames(agent_results)
        confidence_score == _calculate_confidence_score(agent_results)
    IN IF confidence_score.raised # None
       THEN [raised |-> confidence_score.raised]
       ELSE [raised |-> None,
             query |-> query,
             domain |-> domain,
             summary |-> Workflow_synthesize_summary(agent_results, query, domain, probes),
             key_findings |-> Workflow_synthesize_findings(agent_results),
             insights |-> Workflow_synthesize_insights(agent_results, domain),
             contradictions |-> Workflow_detect_contradictions(agent_results),
             confidence_score |-> confidence_score.value,
             coverage_analysis |-> Workflow_analyze_coverage(agent_results, domain, probes),
             agent_results |-> agent_results,
             successful_agents |-> successful_agents,
             total_sources |-> Len(AllSources(agent_results)),
             total_tokens |-> TotalOverSuccess(agent_results, "tokens"),
             total_cost |-> TotalOverSuccess(agent_results, "cost"),
             execution_time |-> execution_time,
             timestamp |-> now,
             synthesis_quality |->
                 IF Len(successful_agents) > 1 THEN "high" ELSE "medium"]

_create_empty_result(query, domain, now) ==
    [raised |-> None,
     query |-> query,
     domain |-> domain,
     summary |-> "No agents available to execute research",
     key_findings |-> <<>>,
     insights |-> <<>>,
     contradictions |-> <<>>,
     agent_results |-> <<>>,
     successful_agents |-> <<>>,
     total_sources |-> 0,
     total_tokens |-> 0,
     total_cost |-> 0,
     execution_time |-> 0,
     confidence_score |-> 0,
     coverage_analysis |->
         [breadth |-> "none",
          depth |-> "none",
          source_types |-> <<>>,
          recommendations |-> <<"Please select and configure agents">>],
     timestamp |-> now,
     synthesis_quality |-> "none",
     error |-> "No agents available"]

\* the keys of ResearchWorkflow.agents once the agents are initialised
AgentKeys == {"perplexity", "youtube", "api"}

\* _initialize_agents without the test of _agents_initialized: every call
\* loads the agents anew
InitializeEveryCall(loaded, initialized) == [AgentKeys -> {"agent", None}]

\* self.agents after _initialize_agents: on the first call each agent is
\* loaded, or None when its import or constructor fails
_initialize_agents(loaded, initialized) ==
    IF initialized THEN {loaded} ELSE [AgentKeys -> {"agent", None}]

\* self.agents.get(agent_name)
AgentOf(loaded, agent_name) ==
    IF agent_name \in DOMAIN loaded THEN loaded[agent_name] ELSE None

(***************************************************************************)
(* Bounds and input sets                                                   *)
(***************************************************************************)
MaxLen == 5          \* longest str handed to _clean_text in SpecClean
MaxRecords == 2      \* longest agent_results list in SpecConsolidate
MaxSalt == 1         \* hash salts 0..MaxSalt
MaxCalls == 2        \* calls of consolidate_results in SpecRuns
MaxSelected == 2     \* longest selected_agents list handed to execute

Alphabet == {"<", ">", "*", "#", Backtick, "[", "]", "1", " ", "a"}
Queries == {"Q"}
Domains == {"medical", "general"}

RECURSIVE StringsUpTo(_)
StringsUpTo(n) ==
    IF n = 0 THEN {""}
    ELSE LET S == StringsUpTo(n - 1)
         IN S \cup {s \o c : s \in S, c \in Alphabet}

\* the lists of at most n members of S
RECURSIVE ListsUpTo(_, _)
ListsUpTo(S, n) ==
    IF n = 0 THEN {<<>>}
    ELSE LET L == ListsUpTo(S, n - 1)
         IN L \cup {Append(l, r) : l \in L, r \in S}

\* the records an agent's research task can return: those of the pool that
\* carry its name, or no name
AgentOutputs(agent_name) ==
    {r \in Pool : Get(r, "agent_name", agent_name) = agent_name}

NotCalled == [raised |-> "<not called>"]
NoResult == [status |-> "<no result>"]
EmptyDict == [name \in {} |-> None]

NoText == /\ text = "" /\ cleaned = None /\ recleaned = None
NoCall ==
    /\ in_query = "" /\ in_domain = "" /\ in_results = <<>> /\ hashsalt = 0
    /\ clock = 0 /\ consolidated = NotCalled /\ previous = NotCalled
    /\ process = 0
NoWorkflow ==
    /\ agents = EmptyDict /\ _agents_initialized = FALSE
    /\ selected_agents = <<>> /\ tasks = <<>>

(***************************************************************************)
(* SpecClean: _clean_text applied to a str, then to its own result.        *)
(***************************************************************************)
InitClean ==
    /\ text \in StringsUpTo(MaxLen)
    /\ cleaned = None
    /\ recleaned = None
    /\ pc = "clean"
    /\ NoCall
    /\ NoWorkflow

Clean ==
    /\ pc = "clean"
    /\ cleaned' = _clean_text(PyStr(text))
    /\ pc' = "reclean"
    /\ UNCHANGED <<text, recleaned, callVars, workflowVars>>

Reclean ==
    /\ pc = "reclean"
    /\ recleaned' = _clean_text(PyStr(cleaned))
    /\ pc' = "cleaned"
    /\ UNCHANGED <<text, cleaned, callVars, workflowVars>>

NextClean == Clean \/ Reclean
SpecClean == InitClean /\ [][NextClean]_vars

(***************************************************************************)
(* SpecConsolidate: one call of consolidate_results on a list of records.  *)
(* SpecRuns: the program calls it again on the same arguments, in the same *)
(* process or after it was started again.                                  *)
(***************************************************************************)
InitConsolidate ==
    /\ in_query \in Queries
    /\ in_domain \in Domains
    /\ in_results \in ListsUpTo(Pool, MaxRecords) \cup Scenarios
    /\ hashsalt \in 0..MaxSalt
    /\ clock = 0
    /\ consolidated = NotCalled
    /\ previous = NotCalled
    /\ process = 0
    /\ pc = "call"
    /\ NoText
    /\ NoWorkflow

\* a call that uses up the caller's list: it takes the records out of
\* agent_results as it reads them
ConsolidateInPlace ==
    /\ pc = "call"
    /\ consolidated' = consolidate_results(in_query, in_domain, in_results, 0,
                           clock, ProbeSequences(hashsalt))
    /\ in_results' = <<>>
    /\ previous' = consolidated
    /\ clock' = clock + 1
    /\ pc' = "returned"
    /\ UNCHANGED <<in_query, in_domain, hashsalt, process,
                   textVars, workflowVars>>

Consolidate ==
    /\ pc = "call"
    /\ consolidated' = consolidate_results(in_query, in_domain, in_results, 0,
                           clock, ProbeSequences(hashsalt))
    /\ previous' = consolidated
    /\ clock' = clock + 1
    /\ pc' = "returned"
    /\ UNCHANGED <<in_query, in_domain, in_results, hashsalt, process,
                   textVars, workflowVars>>

\* the same process makes the call once more
CallAgain ==
    /\ pc = "returned"
    /\ clock < MaxCalls
    /\ pc' = "call"
    /\ UNCHANGED <<callVars, textVars, workflowVars>>

\* the program is started again: the new process has a salt of its own
Restart ==
    /\ pc = "returned"
    /\ clock < MaxCalls
    /\ hashsalt' \in 0..MaxSalt
    /\ process' = process + 1
    /\ pc' = "call"
    /\ UNCHANGED <<in_query, in_domain, in_results, clock, consolidated,
                   previous, textVars, workflowVars>>

NextConsolidate == Consolidate
SpecConsolidate == InitConsolidate /\ [][NextConsolidate]_vars

NextRuns == Consolidate \/ CallAgain \/ Restart
SpecRuns == InitConsolidate /\ [][NextRuns]_vars

(***************************************************************************)
(* Spec: calls of ResearchWorkflow.execute on one workflow object.  The    *)
(* agents are the environment: a research task returns a record, returns   *)
(* something that is no dict, or raises.                                   *)
(***************************************************************************)
Init ==
    /\ agents = EmptyDict
    /\ _agents_initialized = FALSE
    /\ selected_agents = <<>>
    /\ tasks = <<>>
    /\ in_query = ""
    /\ in_domain = ""
    /\ in_results = <<>>
    /\ hashsalt \in 0..MaxSalt
    /\ clock = 0
    /\ consolidated = NotCalled
    /\ previous = NotCalled
    /\ process = 0
    /\ pc = "idle"
    /\ NoText

\* execute up to "await asyncio.gather": the agents are initialised on the
\* first call, a task is made for each selected agent that is not None, and
\* without tasks the empty result is returned at once
Execute(query, domain, selected) ==
    /\ pc = "idle"
    /\ \E loaded \in _initialize_agents(agents, _agents_initialized) :
         LET started == SelectSeq(selected,
                            LAMBDA agent_name : AgentOf(loaded, agent_name) # None)
         IN /\ agents' = loaded
            /\ _agents_initialized' = TRUE
            /\ tasks' = [i \in 1..Len(started) |->
                            [agent |-> started[i], outcome |-> "pending",
                             result |-> NoResult]]
            /\ IF Len(started) = 0
               THEN /\ consolidated' = _create_empty_result(query, domain, clock)
                    /\ pc' = "idle"
               ELSE /\ consolidated' = NotCalled
                    /\ pc' = "gather"
    /\ in_query' = query
    /\ in_domain' = domain
    /\ selected_agents' = selected
    /\ in_results' = <<>>
    /\ UNCHANGED <<hashsalt, clock, previous, process, textVars>>

\* task i ends with outcome o and result r
TaskEnds(i, o, r) ==
    /\ pc = "gather"
    /\ tasks[i].outcome = "pending"
    /\ tasks' = [tasks EXCEPT ![i] = [agent |-> @.agent, outcome |-> o, result |-> r]]
    /\ UNCHANGED <<agents, _agents_initialized, selected_agents, callVars,
                   textVars, pc>>

TaskReturns(i) == \E r \in AgentOutputs(tasks[i].agent) : TaskEnds(i, "dict", r)
TaskReturnsOther(i) == TaskEnds(i, "other", NoResult)
TaskRaises(i) == TaskEnds(i, "exception", NoResult)

\* the dicts of the tasks before the first one that raised: what is left when
\* an exception ends the wait
ResultsBeforeException(all) ==
    LET raised == {i \in 1..Len(all) : all[i].outcome = "exception"}
    IN Flatten([i \in 1..Len(all) |->
           IF all[i].outcome = "dict" /\ \A j \in raised : i < j
           THEN <<all[i].result>> ELSE <<>>])

\* for result in agent_results: the dicts, in the order of the tasks
ValidResults(all) ==
    Flatten([i \in 1..Len(all) |->
        IF all[i].outcome = "dict" THEN <<all[i].result>> ELSE <<>>])

\* execute from the return of asyncio.gather on: every task has ended
Gather ==
    /\ pc = "gather"
    /\ \A i \in 1..Len(tasks) : tasks[i].outcome # "pending"
    /\ in_results' = ValidResults(tasks)
    /\ consolidated' = _consolidate_results(in_query, in_domain,
                           ValidResults(tasks), 0, clock, ProbeSequences(hashsalt))
    /\ pc' = "idle"
    /\ UNCHANGED <<in_query, in_domain, hashsalt, clock, previous, process,
                   workflowVars, textVars>>

Next ==
    \/ \E query \in Queries, domain \in Domains,
          selected \in ListsUpTo(AgentKeys, MaxSelected) :
              Execute(query, domain, selected)
    \/ \E i \in 1..Len(tasks) : TaskReturns(i)
    \/ \E i \in 1..Len(tasks) : TaskReturnsOther(i)
    \/ \E i \in 1..Len(tasks) : TaskRaises(i)
    \/ Gather

Spec == Init /\ [][Next]_vars

(***************************************************************************)
(* Properties of one call of consolidate_results (SpecConsolidate)         *)
(***************************************************************************)
Returned == pc = "returned" /\ consolidated.raised = None

StatusIsSuccess(r) == "status" \in DOMAIN r /\ r.status = "success"

\* C1: the consolidated result has at most 10 key_findings, at most 8
\* insights and at most 5 contradictions, whatever the input list
C1_OutputCaps ==
    Returned =>
        /\ Len(consolidated.key_findings) <= 10
        /\ Len(consolidated.insights) <= 8
        /\ Len(consolidated.contradictions) <= 5

\* a call whose input had more than 10 distinct findings, more than 8
\* distinct insights and more than 5 clashing pairs
C1_Witness ==
    /\ Returned
    /\ Len(DedupFindings(FindingsData(in_results), 1, <<>>, {})) > 10
    /\ Len(DedupInsights(InsightsData(in_results), 1, <<>>)) > 8
    /\ Len(ContradictionsOf(AllStatements(in_results), contradiction_keywords)) > 5
    /\ Len(consolidated.key_findings) = 10
    /\ Len(consolidated.insights) = 8
    /\ Len(consolidated.contradictions) = 5

\* C2: the confidence score lies in [0, 100] (0..1000 tenths) for every
\* input list, and is 0 for the empty list
C2_ScoreInRange ==
    Returned =>
        /\ consolidated.confidence_score >= 0
        /\ consolidated.confidence_score <= 1000
        /\ (in_results = <<>> => consolidated.confidence_score = 0)

\* |A \cap B| / |A \cup B| >= 0.6, for token sets that are not both empty
JaccardAtLeastSixTenths(A, B) ==
    /\ A \cup B # {}
    /\ 10 * Cardinality(A \cap B) >= 6 * Cardinality(A \cup B)

NonStringEntries(r, key) ==
    \E k \in 1..Len(Get(r, key, <<>>)) : Get(r, key, <<>>)[k].type # "str"

\* C4: consolidate_results returns a result and raises nothing, for the
\* empty list, for lists of non-success records, for records that lack any
\* of their keys and for records with non-string findings or insights
C4_NeverRaises == pc = "returned" => consolidated.raised = None

\* a call on a list that holds a record without any key but status and a
\* record with non-string findings
C4_Witness ==
    /\ Returned
    /\ \E i \in 1..Len(in_results) : DOMAIN in_results[i] = {"status"}
    /\ \E i \in 1..Len(in_results) : NonStringEntries(in_results[i], "key_findings")

\* C5: on the empty list the score is 0.0, key_findings is the
\* empty sequence, and the summary is non-empty and contains Q and D
C5_EmptyInputEmptyFindings ==
    Returned /\ in_results = <<>> =>
        /\ consolidated.confidence_score = 0
        /\ consolidated.key_findings = <<>>
        /\ consolidated.summary # ""
        /\ ContainsStr(consolidated.summary, in_query)
        /\ ContainsStr(consolidated.summary, in_domain)

\* the record r with the summary, findings, insights and agent name of p
TextKeys == {"summary", "key_findings", "insights", "agent_name"}
WithTextOf(r, p) ==
    [k \in (DOMAIN r \ TextKeys) \cup (DOMAIN p \cap TextKeys) |->
        IF k \in TextKeys THEN p[k] ELSE r[k]]

SynthesisOf(result) ==
    <<result.summary, result.key_findings, result.insights,
      result.contradictions, result.successful_agents>>

\* C6: replacing the summary, findings, insights and agent name of a record
\* whose status is not 'success' leaves summary, key_findings, insights,
\* contradictions and successful_agents as they are
C6_NonSuccessTextIgnored ==
    Returned =>
        \A i \in 1..Len(in_results) : \A p \in Pool :
            ~StatusIsSuccess(in_results[i]) =>
                LET changed == consolidate_results(in_query, in_domain,
                                   [in_results EXCEPT ![i] = WithTextOf(@, p)],
                                   0, 0, ProbeSequences(hashsalt))
                IN /\ changed.raised = None
                   /\ SynthesisOf(changed) = SynthesisOf(consolidated)

\* a call on a successful record and a non-success record, both with text
C6_Witness ==
    /\ Returned
    /\ \E i, j \in 1..Len(in_results) :
           /\ StatusIsSuccess(in_results[i])
           /\ Len(QualifyingSummaries(<<in_results[i]>>)) = 1
           /\ ~StatusIsSuccess(in_results[j])
           /\ Len(Get(in_results[j], "key_findings", <<>>)) > 0
           /\ Truthy(Get(in_results[j], "summary", PyStr("")))
    /\ Len(consolidated.successful_agents) = 1

\* C8: total_sources is the sum of len(sources) over the records whose
\* status is 'success'; sources of other records are not counted
C8_TotalSources ==
    Returned =>
        consolidated.total_sources =
            Sum([i \in 1..Len(in_results) |->
                    IF StatusIsSuccess(in_results[i]) /\ "sources" \in DOMAIN in_results[i]
                    THEN Len(in_results[i].sources) ELSE 0])

\* a call on a successful record with sources and a non-success record with
\* sources
C8_Witness ==
    /\ Returned
    /\ consolidated.total_sources > 0
    /\ \E j \in 1..Len(in_results) :
           /\ ~StatusIsSuccess(in_results[j])
           /\ Len(Get(in_results[j], "sources", <<>>)) > 0

\* the record is successful and its summary is a str that cleans to more
\* than 50 characters
HasLongSummary(r) ==
    /\ StatusIsSuccess(r)
    /\ "summary" \in DOMAIN r
    /\ r.summary.type = "str"
    /\ Len(Cleaned(r.summary.repr)) > 50

\* the number of records of the list that satisfy Test
CountOf(list, Test(_)) == Cardinality({i \in 1..Len(list) : Test(list[i])})

\* the source_count of the record, 0 when it has none
SourceCountOrZero(r) == IF "source_count" \in DOMAIN r THEN r.source_count ELSE 0

\* C11: the summary is never empty, and when no successful record has a
\* summary that cleans to more than 50 characters it is the fallback
\* sentence with the query, the domain, the sum of source_count and the
\* number of successful records
C11_SummaryNeverEmpty ==
    Returned =>
        /\ consolidated.summary # ""
        /\ CountOf(in_results, HasLongSummary) = 0 =>
               consolidated.summary =
                   "Comprehensive research on '" \o in_query \o "' in the "
                   \o in_domain \o " domain. Analysis utilized "
                   \o IntToStr(CountOf(in_results, StatusIsSuccess))
                   \o " specialized agent(s) to examine "
                   \o IntToStr(Sum([i \in 1..Len(in_results) |->
                                       SourceCountOrZero(in_results[i])]))
                   \o " sources, providing multi-dimensional insights across various information channels. Detailed findings and sources are available in the respective tabs."

\* a call on successful records with sources, none with a long summary
C11_Witness ==
    /\ Returned
    /\ CountOf(in_results, HasLongSummary) = 0
    /\ CountOf(in_results, StatusIsSuccess) = 2
    /\ \E i \in 1..Len(in_results) : SourceCountOrZero(in_results[i]) > 2

\* the record is successful and one of its insights cleans to more than 20
\* characters
HasLongInsight(r) ==
    /\ StatusIsSuccess(r)
    /\ "insights" \in DOMAIN r
    /\ \E k \in 1..Len(r.insights) : Len(Cleaned(r.insights[k].repr)) > 20

\* the sentence that opens the generated insights
FallbackInsight(list) ==
    "Research incorporates "
    \o IntToStr(Sum([i \in 1..Len(list) |-> SourceCountOrZero(list[i])]))
    \o " sources from " \o IntToStr(CountOf(list, StatusIsSuccess))
    \o " specialized agents, providing comprehensive multi-perspective analysis"

\* C12: insights is never empty; it is the generated list, of 1 to 5 items,
\* exactly when no insight of a successful record survives cleaning and the
\* length filter (deduplication never empties a non-empty list)
C12_InsightsNeverEmpty ==
    Returned =>
        /\ Len(consolidated.insights) >= 1
        /\ (CountOf(in_results, HasLongInsight) = 0
                <=> consolidated.insights[1] = FallbackInsight(in_results))
        /\ CountOf(in_results, HasLongInsight) = 0 =>
               Len(consolidated.insights) <= 5

\* a call on successful records without insights, in a domain of the table
C12_Witness ==
    /\ Returned
    /\ CountOf(in_results, HasLongInsight) = 0
    /\ CountOf(in_results, StatusIsSuccess) >= 1
    /\ in_domain = "medical"
    /\ Len(consolidated.insights) = 3

\* the number of entries of the list that the record holds under the key
EntriesOf(r, key) == IF key \in DOMAIN r THEN Len(r[key]) ELSE 0

\* min(a, b)
Least(a, b) == IF a < b THEN a ELSE b

\* N times the sum of the four factors, in tenths of a point, N the number
\* of records: 300 * successful + N * (30 * min(sources, 10)
\* + 10 * min(findings, 20) + 20 * min(insights, 10))
FactorsTimesCount(list) ==
    300 * CountOf(list, StatusIsSuccess)
    + Len(list)
      * (30 * Least(Sum([i \in 1..Len(list) |-> SourceCountOrZero(list[i])]), 10)
         + 10 * Least(Sum([i \in 1..Len(list) |-> EntriesOf(list[i], "key_findings")]), 20)
         + 20 * Least(Sum([i \in 1..Len(list) |-> EntriesOf(list[i], "insights")]), 10))

\* C13: on a non-empty list the score is the sum of the four factors
\* rounded to one decimal (no tenth is nearer to the sum), and one
\* successful record with source_count 5, one finding and no insights
\* scores 46.0
C13_ScoreFormula ==
    Returned /\ in_results # <<>> =>
        /\ 2 * (consolidated.confidence_score * Len(in_results)
                    - FactorsTimesCount(in_results)) <= Len(in_results)
        /\ 2 * (FactorsTimesCount(in_results)
                    - consolidated.confidence_score * Len(in_results)) <= Len(in_results)
        /\ in_results = <<SingleFinding>> => consolidated.confidence_score = 460

\* the call of the example
C13_Witness ==
    /\ Returned
    /\ in_results = <<SingleFinding>>
    /\ consolidated.confidence_score = 460

\* the record with its findings under key_findings, when it has them under
\* findings alone
UnderKeyFindings(r) ==
    IF "findings" \in DOMAIN r /\ "key_findings" \notin DOMAIN r
    THEN [k \in (DOMAIN r \ {"findings"}) \cup {"key_findings"} |->
             IF k = "key_findings" THEN r.findings ELSE r[k]]
    ELSE r

\* what a result says of the findings
FindingsView(result) ==
    <<result.key_findings, result.contradictions, result.confidence_score,
      result.coverage_analysis.depth>>

\* C14: a successful record that has its findings under findings, and no
\* key_findings, gives the key_findings, contradictions, score and coverage
\* depth that it gives with the same findings under key_findings
C14_FindingsKeyAccepted ==
    Returned =>
        FindingsView(consolidated) =
            FindingsView(consolidate_results(in_query, in_domain,
                [i \in 1..Len(in_results) |-> UnderKeyFindings(in_results[i])],
                0, 0, ProbeSequences(hashsalt)))

\* the source count of a record: its source_count, or len(sources) when it
\* has none
DerivedSourceCount(r) ==
    IF "source_count" \in DOMAIN r THEN r.source_count
    ELSE IF "sources" \in DOMAIN r THEN Len(r.sources) ELSE 0

DerivedTotal(list) == Sum([i \in 1..Len(list) |-> DerivedSourceCount(list[i])])

\* N times the sum of the four factors, in tenths of a point, with the
\* derived total of sources
DerivedFactorsTimesCount(list) ==
    300 * CountOf(list, StatusIsSuccess)
    + Len(list)
      * (30 * Least(DerivedTotal(list), 10)
         + 10 * Least(Sum([i \in 1..Len(list) |-> EntriesOf(list[i], "key_findings")]), 20)
         + 20 * Least(Sum([i \in 1..Len(list) |-> EntriesOf(list[i], "insights")]), 10))

\* C15: the total source count that the score, the coverage breadth and the
\* fallback summary use counts len(sources) for a record without
\* source_count
C15_SourceCountDerived ==
    Returned =>
        /\ 2 * (consolidated.confidence_score * Len(in_results)
                    - DerivedFactorsTimesCount(in_results)) <= Len(in_results)
        /\ 2 * (DerivedFactorsTimesCount(in_results)
                    - consolidated.confidence_score * Len(in_results)) <= Len(in_results)
        /\ consolidated.coverage_analysis.breadth =
               (IF DerivedTotal(in_results) >= 30 THEN "excellent"
                ELSE IF DerivedTotal(in_results) >= 15 THEN "good"
                ELSE IF DerivedTotal(in_results) < 5 THEN "limited"
                ELSE "medium")
        /\ CountOf(in_results, HasLongSummary) = 0 =>
               consolidated.summary =
                   "Comprehensive research on '" \o in_query \o "' in the "
                   \o in_domain \o " domain. Analysis utilized "
                   \o IntToStr(CountOf(in_results, StatusIsSuccess))
                   \o " specialized agent(s) to examine "
                   \o IntToStr(DerivedTotal(in_results))
                   \o " sources, providing multi-dimensional insights across various information channels. Detailed findings and sources are available in the respective tabs."

\* C16: of the findings "Revenue increased 20 percent year over year" of
\* agent A and "Revenue increased twenty percent YoY" of agent B, only one
\* is in key_findings
C16_OneRevenueFindingSurvives ==
    Returned /\ in_results = <<RevenueA, RevenueB>> =>
        Len(consolidated.key_findings) = 1

\* C16 amended: both findings are in key_findings, A's before B's: they
\* share 3 of their 8 words, which is less than 0.6
C16_BothRevenueFindingsSurvive ==
    Returned /\ in_results = <<RevenueA, RevenueB>> =>
        consolidated.key_findings =
            <<"Revenue increased 20 percent year over year",
              "Revenue increased twenty percent YoY">>

\* the call on the two agents
C16_Witness ==
    /\ Returned
    /\ in_results = <<RevenueA, RevenueB>>
    /\ Len(consolidated.key_findings) = 2

\* the antonym keyword pairs
Antonyms ==
    {<<"increases", "decreases">>, <<"positive", "negative">>,
     <<"bullish", "bearish">>, <<"effective", "ineffective">>,
     <<"safe", "unsafe">>, <<"recommended", "not recommended">>}

\* one text contains the left word of some antonym pair and the other text
\* contains its right word
Clash(text1, text2) ==
    \E a \in Antonyms :
        \/ Contains(Lowered(text1), a[1]) /\ Contains(Lowered(text2), a[2])
        \/ Contains(Lowered(text1), a[2]) /\ Contains(Lowered(text2), a[1])

\* the number of antonym pairs that match the two texts
MatchingAntonyms(text1, text2) ==
    Cardinality({a \in Antonyms :
        \/ Contains(Lowered(text1), a[1]) /\ Contains(Lowered(text2), a[2])
        \/ Contains(Lowered(text1), a[2]) /\ Contains(Lowered(text2), a[1])})

\* the pairs of positions i < j of clashing statements of different agents
ClashingPairs(stmts) ==
    {p \in (1..Len(stmts)) \X (1..Len(stmts)) :
        /\ p[1] < p[2]
        /\ stmts[p[1]].agent # stmts[p[2]].agent
        /\ Clash(stmts[p[1]].text, stmts[p[2]].text)}

\* the place of the pair p among the pairs P, by first and then by second position
RankIn(P, p) ==
    Cardinality({q \in P : q[1] < p[1] \/ (q[1] = p[1] /\ q[2] <= p[2])})

\* the record c is the contradiction of the statements at the positions p
RecordOf(c, stmts, p) ==
    /\ c.agent1 = stmts[p[1]].agent
    /\ c.agent2 = stmts[p[2]].agent
    /\ c.statement1 = Take(stmts[p[1]].text, 100) \o "..."
    /\ c.statement2 = Take(stmts[p[2]].text, 100) \o "..."
    /\ c.type = "potential_contradiction"

\* C17 as stated: every clashing pair of statements of two different
\* successful agents has exactly one contradiction record, so the records are
\* as many as the clashing pairs and the k-th record is that of the k-th pair
C17_OneRecordPerClashingPair ==
    Returned =>
        LET stmts == AllStatements(in_results)
            P == ClashingPairs(stmts)
        IN /\ Len(consolidated.contradictions) = Cardinality(P)
           /\ \A p \in P :
                  RecordOf(consolidated.contradictions[RankIn(P, p)], stmts, p)

\* C17, with the cap: the contradictions are one record for each of the first
\* five clashing pairs of statements of two different successful agents, in
\* the order of the statements, however many keyword pairs match a pair of
\* statements; the bullish and the bearish insight give exactly one record
C17_OneRecordPerClashingPairUpToFive ==
    Returned =>
        LET stmts == AllStatements(in_results)
            P == ClashingPairs(stmts)
            c == consolidated.contradictions
        IN /\ Len(c) = Least(5, Cardinality(P))
           /\ \A p \in P : RankIn(P, p) <= 5 => RecordOf(c[RankIn(P, p)], stmts, p)
           /\ in_results = <<BullishA, BearishB>> =>
                  /\ Len(c) = 1
                  /\ c[1].agent1 = "perplexity" /\ c[1].agent2 = "youtube"

\* a call with a pair of statements that two keyword pairs match, and with
\* exactly one record for it
C17_Witness ==
    /\ Returned
    /\ in_results = <<PerplexityResult, Unsafe>>
    /\ \E p \in ClashingPairs(AllStatements(in_results)) :
           MatchingAntonyms(AllStatements(in_results)[p[1]].text,
                            AllStatements(in_results)[p[2]].text) >= 2
    /\ Len(consolidated.contradictions) = 1

\* the agent names of the successful records, "unknown" for a record without one
SuccessfulAgentNames(list) ==
    {IF "agent_name" \in DOMAIN list[i] THEN list[i].agent_name ELSE "unknown" :
        i \in {k \in 1..Len(list) : StatusIsSuccess(list[k])}}

\* the sum of source_count over the records
SourcesTotal(list) == Sum([i \in 1..Len(list) |-> SourceCountOrZero(list[i])])

\* the number of entries under the key over the records
EntriesTotal(list, key) == Sum([i \in 1..Len(list) |-> EntriesOf(list[i], key)])

\* the sentence when the condition holds, nothing otherwise
OnlyIf(condition, sentence) == IF condition THEN <<sentence>> ELSE <<>>

\* C18: the recommendations are, in this order, the 'multiple agents'
\* sentence iff there is exactly one distinct successful agent name, the
\* 'source count' sentence iff the total of sources is below 10 and the
\* 'refine query' sentence iff the total of insights is below 3, each
\* independently of the others; three successful agents with 35 sources,
\* 12 findings and 6 insights get none
C18_Recommendations ==
    Returned =>
        /\ consolidated.coverage_analysis.recommendations =
               OnlyIf(Cardinality(SuccessfulAgentNames(in_results)) = 1,
                      "Consider using multiple agents for broader perspective")
               \o OnlyIf(SourcesTotal(in_results) < 10,
                         "Increase source count for more comprehensive analysis")
               \o OnlyIf(EntriesTotal(in_results, "insights") < 3,
                         "Refine query to generate more actionable insights")
        /\ in_results = <<CoverageA, CoverageB, CoverageC>> =>
               consolidated.coverage_analysis.recommendations = <<>>

\* the call of the example: three successful agents, 35 sources, 12 findings
\* and 6 insights
C18_Witness ==
    /\ Returned
    /\ in_results = <<CoverageA, CoverageB, CoverageC>>
    /\ Cardinality(SuccessfulAgentNames(in_results)) = 3
    /\ SourcesTotal(in_results) = 35
    /\ EntriesTotal(in_results, "key_findings") = 12
    /\ EntriesTotal(in_results, "insights") = 6
    /\ consolidated.coverage_analysis.recommendations = <<>>

\* the breadth tier of a total of sources, each tier by its own interval
BreadthTier(sources) ==
    CHOOSE tier \in {"excellent", "good", "medium", "limited"} :
        /\ tier = "excellent" <=> sources >= 30
        /\ tier = "good" <=> sources >= 15 /\ sources < 30
        /\ tier = "medium" <=> sources >= 5 /\ sources < 15
        /\ tier = "limited" <=> sources < 5

\* the depth tier of the totals of findings and of insights
DepthTier(findings, insights) ==
    LET excellent == findings >= 10 /\ insights >= 5
        good == ~excellent /\ findings >= 5 /\ insights >= 3
        limited == ~excellent /\ ~good /\ findings < 3
    IN CHOOSE tier \in {"excellent", "good", "medium", "limited"} :
        /\ tier = "excellent" <=> excellent
        /\ tier = "good" <=> good
        /\ tier = "limited" <=> limited
        /\ tier = "medium" <=> ~excellent /\ ~good /\ ~limited

\* the coverage analysis has exactly the tiers of the totals over the records
TiersOf(coverage, list) ==
    /\ coverage.breadth = BreadthTier(SourcesTotal(list))
    /\ coverage.depth = DepthTier(EntriesTotal(list, "key_findings"),
                                  EntriesTotal(list, "insights"))

\* C19: breadth is excellent for 30 sources or more, good for 15 to 29,
\* limited below 5 and medium otherwise; depth is excellent for at least 10
\* findings and 5 insights, else good for at least 5 findings and 3
\* insights, else limited below 3 findings, else medium; in the
\* consolidator and in the workflow's own copy
C19_CoverageTiers ==
    Returned =>
        /\ TiersOf(consolidated.coverage_analysis, in_results)
        /\ TiersOf(Workflow_analyze_coverage(in_results, in_domain,
                                             ProbeSequences(hashsalt)),
                   in_results)

\* a call on exactly 30 sources, 11 findings and 9 insights
C19_Witness ==
    /\ Returned
    /\ SourcesTotal(in_results) = 30
    /\ EntriesTotal(in_results, "key_findings") = 11
    /\ EntriesTotal(in_results, "insights") = 9
    /\ consolidated.coverage_analysis.breadth = "excellent"
    /\ consolidated.coverage_analysis.depth = "excellent"

\* the cleaned entries under the key of the successful records
CleanedEntries(list, key) ==
    UNION {{_clean_text(Str(list[i][key][k])) : k \in 1..Len(list[i][key])} :
              i \in {n \in 1..Len(list) :
                        StatusIsSuccess(list[n]) /\ key \in DOMAIN list[n]}}

\* the two texts have a Jaccard similarity of 0.6 or more
SimilarTexts(a, b) ==
    JaccardAtLeastSixTenths(Split(_normalize_text(a)), Split(_normalize_text(b)))

\* the text went through the deduplication into the output: it is there, or
\* a similar text is, or the output is full
Deduplicated(c, out, cap) ==
    \/ \E k \in 1..Len(out) : out[k] = c \/ SimilarTexts(out[k], c)
    \/ Len(out) = cap

\* the output treats the texts of at least min characters as candidates and
\* has none of the shorter ones
FilteredAt(min, texts, out, cap) ==
    \A c \in texts :
        IF Len(c) >= min THEN Deduplicated(c, out, cap)
        ELSE \A k \in 1..Len(out) : out[k] # c

\* C22 as stated: a finding or insight of a successful agent is discarded
\* by the length filter exactly when it cleans to fewer than 20 characters
C22_DiscardedBelow20 ==
    Returned =>
        /\ FilteredAt(20, CleanedEntries(in_results, "key_findings"),
                      consolidated.key_findings, 10)
        /\ FilteredAt(20, CleanedEntries(in_results, "insights"),
                      consolidated.insights, 8)

\* C22, with the code's limit: a finding or insight of a successful agent is
\* discarded by the length filter exactly when it cleans to 20 characters or
\* fewer; one that cleans to 21 or more is a candidate for deduplication
C22_DiscardedUpTo20 ==
    Returned =>
        /\ FilteredAt(21, CleanedEntries(in_results, "key_findings"),
                      consolidated.key_findings, 10)
        /\ FilteredAt(21, CleanedEntries(in_results, "insights"),
                      consolidated.insights, 8)

\* a call on entries of 20 and of 21 characters: only those of 21 are kept
C22_Witness ==
    /\ Returned
    /\ in_results = <<Boundary>>
    /\ consolidated.key_findings = <<"Costs fell in Germany">>
    /\ consolidated.insights = <<"Prices drop in Norway">>

\* the candidates: the cleaned findings of more than 20 characters of the
\* successful records, in agent order and then finding order
RECURSIVE LongOnes(_)
LongOnes(entries) ==
    IF entries = <<>> THEN <<>>
    ELSE LET c == _clean_text(Str(Head(entries)))
         IN (IF Len(c) > 20 THEN <<c>> ELSE <<>>) \o LongOnes(Tail(entries))

RECURSIVE Candidates(_)
Candidates(list) ==
    IF list = <<>> THEN <<>>
    ELSE (IF StatusIsSuccess(Head(list)) /\ "key_findings" \in DOMAIN Head(list)
          THEN LongOnes(Head(list).key_findings) ELSE <<>>)
         \o Candidates(Tail(list))

\* the positions of the accepted candidates: a candidate is rejected exactly
\* when it is similar to an accepted candidate before it
AcceptedIn(c) ==
    LET accepted[i \in 1..Len(c)] ==
            ~\E j \in 1..(i - 1) : accepted[j] /\ SimilarTexts(c[j], c[i])
    IN {i \in 1..Len(c) : accepted[i]}

Qualifying(list) == {i \in 1..Len(list) : HasLongSummary(list[i])}

\* the cleaned summary of a record
CleanSummary(r) == Cleaned(r.summary.repr)

StartsWith(s, t) == Len(t) <= Len(s) /\ SubSeq(s, 1, Len(t)) = t
EndsWith(s, t) == Len(t) <= Len(s) /\ SubSeq(s, Len(s) - Len(t) + 1, Len(s)) = t

\* C24: with exactly one qualifying summary (successful agent, more than 50
\* characters when cleaned) the summary is that cleaned text; with several it
\* is the preamble followed by a qualifying cleaned summary of maximum length
C24_SummaryChoice ==
    Returned =>
        LET Q == Qualifying(in_results)
        IN /\ Cardinality(Q) = 1 =>
                  \A i \in Q : consolidated.summary = CleanSummary(in_results[i])
           /\ Cardinality(Q) > 1 =>
                  /\ StartsWith(consolidated.summary,
                                "**Multi-Agent Research Analysis** (")
                  /\ \E i \in Q :
                         /\ \A j \in Q : Len(CleanSummary(in_results[j]))
                                             <= Len(CleanSummary(in_results[i]))
                         /\ EndsWith(consolidated.summary, CleanSummary(in_results[i]))
                         /\ Len(consolidated.summary)
                                > Len(CleanSummary(in_results[i]))

\* a call on two qualifying summaries, the second the longer one
C24_Witness ==
    /\ Returned
    /\ Qualifying(in_results) = {1, 2}
    /\ Len(CleanSummary(in_results[1])) < Len(CleanSummary(in_results[2]))
    /\ EndsWith(consolidated.summary, CleanSummary(in_results[2]))
    /\ ~EndsWith(consolidated.summary, CleanSummary(in_results[1]))

\* the agent names of the records with a qualifying summary, "unknown" for a
\* record without one
ContributingNames(list) ==
    {IF "agent_name" \in DOMAIN list[i] THEN list[i].agent_name ELSE "unknown" :
        i \in Qualifying(list)}

\* the lists that hold each member of S once
Orderings(S) ==
    {seq \in [1..Cardinality(S) -> S] : \A x \in S : \E k \in DOMAIN seq : seq[k] = x}

\* the preamble for the count and the listed names (none listed when empty)
Preamble(count, listed) ==
    "**Multi-Agent Research Analysis** (" \o IntToStr(count) \o " agents): "
    \o (IF listed = <<>> THEN ""
        ELSE "Insights synthesized from " \o Join(listed, ", ") \o " sources. ")

\* C25: with several qualifying summaries the preamble names the number of
\* distinct contributing agent names, and lists the names exactly when there
\* is more than one distinct name, also when two qualifying records have the
\* same agent_name
C25_PreambleCountsDistinctNames ==
    Returned /\ Cardinality(Qualifying(in_results)) > 1 =>
        LET names == ContributingNames(in_results)
        IN \E listed \in (IF Cardinality(names) > 1 THEN Orderings(names)
                           ELSE {<<>>}) :
               \E i \in Qualifying(in_results) :
                   consolidated.summary =
                       Preamble(Cardinality(names), listed)
                           \o CleanSummary(in_results[i])

\* no record names one agent twice
DifferentAgents(contradictions) ==
    \A k \in 1..Len(contradictions) :
        contradictions[k].agent1 # contradictions[k].agent2

\* C26: every contradiction record has two different agent names, in the
\* consolidator and in the workflow's copy; when all statements carry one
\* agent name there is no record, whatever keywords they hold
C26_NeverWithinOneAgent ==
    Returned =>
        /\ DifferentAgents(consolidated.contradictions)
        /\ DifferentAgents(Workflow_detect_contradictions(in_results))
        /\ Cardinality(SuccessfulAgentNames(in_results)) <= 1 =>
               /\ consolidated.contradictions = <<>>
               /\ Workflow_detect_contradictions(in_results) = <<>>

\* a call on two records of one agent name whose statements hold both words
\* of a keyword pair, within one record and across the two
C26_Witness ==
    /\ Returned
    /\ in_results = <<BothViews, BullishA>>
    /\ LET stmts == AllStatements(in_results)
       IN /\ Clash(stmts[1].text, stmts[2].text)
          /\ Clash(stmts[2].text, stmts[3].text)
          /\ stmts[1].agent = stmts[2].agent /\ stmts[2].agent = stmts[3].agent
    /\ consolidated.contradictions = <<>>

\* the last two of the eight antonym keyword pairs
MoreAntonyms == {<<"growth", "decline">>, <<"up", "down">>}

\* a pair of statements of two different agents that holds the two words of
\* one of the pairs in P and of no other pair
ClashesOnlyIn(P, stmts) ==
    \E i, j \in 1..Len(stmts) :
        /\ i < j
        /\ stmts[i].agent # stmts[j].agent
        /\ ~Clash(stmts[i].text, stmts[j].text)
        /\ \E a \in P :
               \/ Contains(Lowered(stmts[i].text), a[1])
                      /\ Contains(Lowered(stmts[j].text), a[2])
               \/ Contains(Lowered(stmts[i].text), a[2])
                      /\ Contains(Lowered(stmts[j].text), a[1])

\* C27: the keyword table holds growth/decline and up/down as well: when a
\* statement of one successful agent holds 'growth' and a statement of
\* another holds 'decline', with no other keyword of the table in either, a
\* contradiction is recorded
C27_GrowthDeclineRecorded ==
    Returned /\ ClashesOnlyIn(MoreAntonyms, AllStatements(in_results)) =>
        Len(consolidated.contradictions) >= 1

\* C28: in every consolidated result the breadth tier is the tier of the
\* result's own total_sources: excellent from 30, good from 15 to 29,
\* limited below 5, medium otherwise
C28_BreadthAgreesWithTotalSources ==
    Returned =>
        consolidated.coverage_analysis.breadth = BreadthTier(consolidated.total_sources)

\* text[:100] + "..."
Shortened(text_) == Take(text_, 100) \o "..."

\* the record's two statements are shortened texts of the set
StatementsFrom(c, texts) ==
    /\ \E s \in texts : c.statement1 = Shortened(s)
    /\ \E s \in texts : c.statement2 = Shortened(s)

\* the entries of a list
EntriesIn(out) == {out[k] : k \in 1..Len(out)}

\* C29 as stated: each statement of each contradiction record is the
\* shortened form of a text of the result's key_findings or insights
C29_StatementsAreKept ==
    Returned =>
        \A k \in 1..Len(consolidated.contradictions) :
            StatementsFrom(consolidated.contradictions[k],
                           EntriesIn(consolidated.key_findings)
                               \cup EntriesIn(consolidated.insights))

\* C29, over the input: each statement of each contradiction record is the
\* first 100 characters plus "..." of a cleaned finding or insight of a
\* successful agent of the input, whether or not that text is among the
\* result's key_findings or insights
C29_StatementsAreCleanedInput ==
    Returned =>
        \A k \in 1..Len(consolidated.contradictions) :
            StatementsFrom(consolidated.contradictions[k],
                           CleanedEntries(in_results, "key_findings")
                               \cup CleanedEntries(in_results, "insights"))

\* a call with a contradiction about an insight that the deduplication
\* dropped: the result's key_findings and insights do not hold it
C29_Witness ==
    /\ Returned
    /\ in_results = <<PerplexityResult, YoutubeResult>>
    /\ \E k \in 1..Len(consolidated.contradictions) :
           /\ consolidated.contradictions[k].statement1
                  = "Analysts expect that demand increases next quarter..."
           /\ consolidated.contradictions[k].statement2
                  = "Analysts expect that demand decreases next quarter..."
    /\ "Analysts expect that demand increases next quarter"
           \in EntriesIn(consolidated.insights)
    /\ "Analysts expect that demand decreases next quarter"
           \notin EntriesIn(consolidated.insights)
                      \cup EntriesIn(consolidated.key_findings)

(***************************************************************************)
(* Properties of ResearchWorkflow.execute (Spec)                           *)
(***************************************************************************)
\* execute has returned the consolidation of the results of its tasks
Gathered == pc = "idle" /\ Len(tasks) > 0 /\ consolidated.raised = None

\* C7: when a task that execute started raised, and the others returned
\* records, the failed agent's task adds nothing to the synthesis input but
\* counts in the denominator of the success-rate factor: the score is the
\* other factors plus 30 * successful / started tasks
C7_RaisedCountedInDenominator ==
    Gathered /\ (\E i \in 1..Len(tasks) : tasks[i].outcome = "exception")
             /\ (\A i \in 1..Len(tasks) : tasks[i].outcome \in {"dict", "exception"}) =>
        /\ Len(in_results) < Len(tasks)
        /\ consolidated.confidence_score =
               RoundTenths(OtherFactors(in_results),
                           300 * Len(SuccessfulNames(in_results)), Len(tasks))

\* the selected agents that are loaded, in the order of the selection
AvailableSelected ==
    SelectSeq(selected_agents, LAMBDA agent_name :
        agent_name \in DOMAIN agents /\ agents[agent_name] # None)

\* the tasks that returned a record
ReturnedRecord == {i \in 1..Len(tasks) : tasks[i].outcome = "dict"}

\* the list holds the records the tasks returned, in the order of the tasks
AllRecordsIn(list) ==
    /\ Len(list) = Cardinality(ReturnedRecord)
    /\ \A i \in ReturnedRecord :
           list[Cardinality({j \in ReturnedRecord : j <= i})] = tasks[i].result

\* C20: while execute waits there is one task for every selected agent that
\* is loaded; a result is only produced when every started task has returned
\* or raised; and the records the tasks returned are all handed to the
\* consolidation, whichever sibling tasks raised
C20_GatherWaitsForAll ==
    /\ pc = "gather" =>
           /\ Len(tasks) = Len(AvailableSelected)
           /\ \A i \in 1..Len(tasks) : tasks[i].agent = AvailableSelected[i]
           /\ consolidated = NotCalled
    /\ pc = "idle" /\ Len(tasks) > 0 =>
           \A i \in 1..Len(tasks) : tasks[i].outcome # "pending"
    /\ Gathered =>
           /\ AllRecordsIn(in_results)
           /\ AllRecordsIn(consolidated.agent_results)

\* a call with two tasks: the first raised, the second returned a record,
\* and the consolidation got that record
C20_Witness ==
    /\ Gathered
    /\ Len(tasks) = 2
    /\ tasks[1].outcome = "exception"
    /\ tasks[2].outcome = "dict"
    /\ consolidated.agent_results = <<tasks[2].result>>

\* the selected agents that are loaded in the agents of the next state
AvailableNext ==
    SelectSeq(selected_agents', LAMBDA agent_name :
        agent_name \in DOMAIN agents' /\ agents'[agent_name] # None)

\* the result of a call that had no agent to run
IsEmptyResult(result) ==
    /\ result.raised = None
    /\ "error" \in DOMAIN result /\ result.error = "No agents available"
    /\ result.confidence_score = 0
    /\ result.key_findings = <<>>
    /\ result.insights = <<>>
    /\ result.contradictions = <<>>
    /\ result.agent_results = <<>>
    /\ result.total_sources = 0

\* a call of execute begins: the step from idle
ExecuteBegins == pc = "idle" /\ vars' # vars

\* C30: in every sequence of calls of execute on one workflow the agents are
\* initialised by the first call and never again; a call makes a task for
\* each selected agent that is loaded and skips the others; and a call with
\* no selected agent loaded returns the empty result at once, with no task
\* and no list handed to the consolidation
C30_InitialisedOnceSkipsUnavailable ==
    [][/\ _agents_initialized => agents' = agents
       /\ _agents_initialized => _agents_initialized'
       /\ ExecuteBegins =>
              /\ _agents_initialized'
              /\ DOMAIN agents' = AgentKeys
              /\ Len(tasks') = Len(AvailableNext)
              /\ \A i \in 1..Len(tasks') :
                     /\ tasks'[i].agent = AvailableNext[i]
                     /\ tasks'[i].outcome = "pending"
              /\ IF AvailableNext = <<>>
                 THEN /\ pc' = "idle"
                      /\ IsEmptyResult(consolidated')
                      /\ consolidated'.query = in_query'
                      /\ in_results' = <<>>
                 ELSE /\ pc' = "gather"
                      /\ consolidated' = NotCalled]_vars

\* a call with two selected agents of which none is loaded, while another
\* agent is: the call has returned the empty result and started no task
C30_Witness ==
    /\ pc = "idle"
    /\ _agents_initialized
    /\ Len(selected_agents) = 2
    /\ \A i \in 1..2 : agents[selected_agents[i]] = None
    /\ \E agent_name \in AgentKeys : agents[agent_name] # None
    /\ tasks = <<>>
    /\ IsEmptyResult(consolidated)

(***************************************************************************)
(* Properties of repeated calls of consolidate_results (SpecRuns)          *)
(***************************************************************************)
\* the fields of a result other than execution_time and timestamp
WithoutTimes(result) ==
    [k \in DOMAIN result \ {"execution_time", "timestamp"} |-> result[k]]

\* C9: two calls of consolidate_results on the same query, domain and
\* agent_results, in the same process or in two processes, return results
\* that are equal in every field but execution_time and timestamp
C9_SameOutput ==
    pc = "returned" /\ previous.raised = None /\ consolidated.raised = None =>
        WithoutTimes(previous) = WithoutTimes(consolidated)

C10_CleanIdempotent == pc = "cleaned" => recleaned = cleaned

====
